---- MODULE Spec2Model ----
(***************************************************************************)
(* Model of the 4-panel manga generator backend:                           *)
(*   - prompt_builder.build_manga_prompt (the prompt compiler),            *)
(*   - models.ImageGenerationRequest / ImageGenerationResponse,            *)
(*   - main.generate_image (the POST /api/generate handler).               *)
(*                                                                         *)
(* Python values are represented as follows.                               *)
(*   str            a TLA+ string; a character_states key, which int()     *)
(*                  has to parse, is a sequence of one-character strings   *)
(*   None           the string NoneValue                                   *)
(*   dict           a sequence of <<key, value>> pairs with distinct keys, *)
(*                  in insertion order                                     *)
(*   list           a sequence                                             *)
(*   the document   a tree of tagged nodes (StrNode, IntNode, ...)         *)
(*   YAML text      the sequence of its block-style lines                  *)
(* Non-ASCII characters of the source's string literals are written in     *)
(* ASCII between angle brackets.                                           *)
(***************************************************************************)
EXTENDS Integers, Sequences, FiniteSets, TLC

(***************************************************************************)
(* Bounds of the model.                                                    *)
(***************************************************************************)
\* longest scenes list handed to the prompt compiler or sent in a payload
MaxScenes == 5
\* longest characters list
MaxChars == 2

\* the number of panels the compiler and the request model insist on
ExpectedScenes == 4

NoneValue == "<None>"

\* Python truthiness of an Optional[str]
Truthy(s) == s # NoneValue /\ s # ""

(***************************************************************************)
(* Generic helpers on sequences and insertion-ordered dicts.               *)
(***************************************************************************)
\* all sequences over S of length 0..n
SeqsUpTo(S, n) == UNION { [1..k -> S] : k \in 0..n }

Range(s) == { s[i] : i \in DOMAIN s }

DictKeys(d) == [i \in DOMAIN d |-> d[i][1]]

DictHas(d, k) == \E i \in DOMAIN d : d[i][1] = k

\* d[k] for a key the dict holds
DictGet(d, k) == d[CHOOSE i \in DOMAIN d : d[i][1] = k][2]

\* d[k] = v : a new key is appended, an existing key keeps its position
DictSet(d, k, v) ==
    IF DictHas(d, k)
    THEN [i \in DOMAIN d |-> IF d[i][1] = k THEN <<k, v>> ELSE d[i]]
    ELSE Append(d, <<k, v>>)

\* 1..Len(s) as a sequence
Indices0(s) == [i \in 1..Len(s) |-> i]

RECURSIVE Join(_)
\* "".join(chars)
Join(chars) == IF chars = <<>> THEN "" ELSE Head(chars) \o Join(Tail(chars))

(***************************************************************************)
(* int(str): the builtin the compiler applies to every character_states    *)
(* key.  Surrounding whitespace is stripped, one sign is accepted, and the *)
(* rest must be decimal digits, single underscores allowed between digits. *)
(***************************************************************************)
Digits == {"0", "1", "2", "3", "4", "5", "6", "7", "8", "9"}

DigitValue(c) ==
    CASE c = "0" -> 0 [] c = "1" -> 1 [] c = "2" -> 2 [] c = "3" -> 3
      [] c = "4" -> 4 [] c = "5" -> 5 [] c = "6" -> 6 [] c = "7" -> 7
      [] c = "8" -> 8 [] c = "9" -> 9

RECURSIVE LStrip(_)
LStrip(s) == IF s # <<>> /\ Head(s) = " " THEN LStrip(Tail(s)) ELSE s

RECURSIVE RStrip(_)
RStrip(s) ==
    IF s # <<>> /\ s[Len(s)] = " " THEN RStrip(SubSeq(s, 1, Len(s) - 1)) ELSE s

Strip(s) == RStrip(LStrip(s))

\* digits with single underscores between them, and nothing else
IsDigitString(s) ==
    /\ s # <<>>
    /\ \A i \in DOMAIN s : s[i] \in Digits \/ s[i] = "_"
    /\ s[1] # "_" /\ s[Len(s)] # "_"
    /\ \A i \in 1..(Len(s) - 1) : ~(s[i] = "_" /\ s[i + 1] = "_")

RECURSIVE DecimalValue(_)
DecimalValue(s) ==
    IF s = <<>> THEN 0
    ELSE LET front == SubSeq(s, 1, Len(s) - 1)
             last  == s[Len(s)]
         IN  IF last = "_" THEN DecimalValue(front)
             ELSE 10 * DecimalValue(front) + DigitValue(last)

\* [ok |-> TRUE, value |-> n], or [ok |-> FALSE] where int() raises ValueError
py_int(s) ==
    LET t      == Strip(s)
        signed == t # <<>> /\ Head(t) \in {"+", "-"}
        body   == IF signed THEN Tail(t) ELSE t
    IN  IF IsDigitString(body)
        THEN [ok |-> TRUE,
              value |-> IF signed /\ Head(t) = "-"
                        THEN 0 - DecimalValue(body) ELSE DecimalValue(body)]
        ELSE [ok |-> FALSE, value |-> 0]


(***************************************************************************)
(* The structured document (prompt_data) and its nodes.                    *)
(***************************************************************************)
StrNode(s)  == [t |-> "str",  v |-> s]
IntNode(n)  == [t |-> "int",  v |-> n]
BoolNode(b) == [t |-> "bool", v |-> b]
MapNode(es) == [t |-> "map",  v |-> es]
ListNode(x) == [t |-> "list", v |-> x]

IsScalar(n) == n.t \in {"str", "int", "bool"}

\* the art-style group, written out twice in the source with the same text
ArtStyleRequirements ==
    MapNode(<< <<"color_mode", StrNode("COLOR ILLUSTRATION (NOT black and white)")>>,
           <<"coloring_technique",
             StrNode("Flat colors with even, beautiful coloring throughout")>>,
           <<"character_emphasis",
             MapNode(<< <<"main_characters",
                      MapNode(<< <<"colors", StrNode("bold, vibrant colors")>>,
                             <<"linework", StrNode("thicker lines")>> >>)>>,
                    <<"objects_and_background",
                      MapNode(<< <<"colors", StrNode("subdued, muted colors")>>,
                             <<"linework", StrNode("thinner, lighter lines")>> >>)>> >>)>>,
           <<"background_handling",
             MapNode(<< <<"when_specified", StrNode("Color appropriately with muted tones")>>,
                    <<"when_not_specified",
                      StrNode("Interpret context and add appropriate colors or abstract background")>> >>)>>,
           <<"style", StrNode("manga/comic art style with professional flat coloring")>> >>)

\* prompt_data["CRITICAL_PRIORITY"]
CriticalPriority ==
    MapNode(<< <<"highest_priority", StrNode("layout_reference_compliance")>>,
           <<"requirement", StrNode("MUST follow layout reference with ABSOLUTE PRECISION")>>,
           <<"mandatory_elements",
             ListNode(<< StrNode("Panel arrangement must match reference exactly"),
                     StrNode("Panel sizes must match reference exactly"),
                     StrNode("Panel positions must match reference exactly"),
                     StrNode("Panel borders/frames must match reference exactly"),
                     StrNode("Spacing between panels must match reference exactly"),
                     StrNode("Overall composition must be visually identical to reference") >>)>>,
           <<"constraint", StrNode("Do NOT deviate from layout reference in ANY way")>>,
           <<"note", StrNode("All other instructions are secondary to layout compliance")>>,
           <<"CRITICAL_NOTE",
             StrNode("The aspect ratio specification (3:4) defines the CANVAS dimensions ONLY. It does NOT define the panel layout within the canvas. The layout reference image defines the panel arrangement. Simply fit the layout reference into a 3:4 canvas.")>> >>)

StrictLayoutInstruction ==
    "Generate 4-panel manga following specifications below while maintaining EXACT adherence to layout reference. The 3:4 aspect ratio is for the OVERALL CANVAS only - the panel layout must match the reference image exactly."

FreeLayoutInstruction ==
    "Generate 4-panel manga based on specifications below with free choice of panel layout"

\* prompt_data["layout_reference"]
LayoutReference ==
    MapNode(<< <<"provided", BoolNode(TRUE)>>,
           <<"requirements",
             MapNode(<< <<"panel_positions",
                      StrNode("Copy exact X/Y coordinates of each panel relative to the reference")>>,
                    <<"panel_dimensions", StrNode("Match width and height proportions precisely")>>,
                    <<"panel_borders", StrNode("Replicate thickness and style exactly")>>,
                    <<"spacing", StrNode("Maintain exact gaps between panels")>>,
                    <<"composition", StrNode("Final image must be visually identical in layout")>>,
                    <<"non_negotiable", StrNode("Layout reference is the blueprint - follow exactly")>>,
                    <<"aspect_ratio_clarification",
                      StrNode("The 3:4 aspect ratio is for the CANVAS (overall output image). The layout reference shows the INTERNAL panel arrangement. Simply reproduce the layout reference panel arrangement within a 3:4 portrait canvas.")>> >>)>> >>)

\* requirements["priority_order"] when a layout reference is given
PriorityOrder ==
    << MapNode(<< <<"priority", IntNode(1)>>,
              <<"name", StrNode("layout_compliance")>>,
              <<"description", StrNode("Follow layout reference image EXACTLY")>>,
              <<"details",
                ListNode(<< StrNode("Panel positions, sizes, borders, spacing must match precisely"),
                        StrNode("Layout structure is more important than any other aspect") >>)>> >>),
       MapNode(<< <<"priority", IntNode(2)>>,
              <<"name", StrNode("character_consistency")>>,
              <<"description",
                StrNode("Maintain character appearance across panels using provided reference images")>> >>),
       MapNode(<< <<"priority", IntNode(3)>>,
              <<"name", StrNode("scene_content")>>,
              <<"description",
                StrNode("Show scene, characters, and background described in each panel")>> >>),
       MapNode(<< <<"priority", IntNode(4)>>,
              <<"name", StrNode("text_and_symbols")>>,
              <<"rules",
                MapNode(<< <<"speech_bubbles", StrNode("COMPLETELY EMPTY (no dialogue text)")>>,
                       <<"text_forbidden",
                         StrNode("Do NOT write letters, words, text, sound effects (like '<DON>')")>>,
                       <<"symbols_allowed",
                         StrNode("Manga symbols ARE allowed (<note>, !, ?, sweat drops, effect lines, emotion marks)")>>,
                       <<"text_inclusion",
                         StrNode("Only include text explicitly specified in panel descriptions")>>,
                       <<"layout_priority",
                         StrNode("While keeping bubbles empty, maintain exact layout from reference")>> >>)>> >>),
       MapNode(<< <<"priority", IntNode(5)>>,
              <<"name", StrNode("art_style_and_coloring")>>,
              <<"requirements", ArtStyleRequirements>> >>) >>

\* requirements["no_layout_reference"] when no layout reference is given
NoLayoutReference ==
    MapNode(<< <<"character_consistency",
             StrNode("Maintain appearance across panels using provided reference images")>>,
           <<"scene_content", StrNode("Show scene, characters, and background as described")>>,
           <<"text_rules",
             MapNode(<< <<"forbidden", StrNode("No letters, words, dialogue, or sound effect text")>>,
                    <<"speech_bubbles", StrNode("Draw but keep completely empty")>>,
                    <<"allowed",
                      StrNode("Manga symbols (<note>, !, ?, sweat, emotion marks, effect lines)")>>,
                    <<"inclusion",
                      StrNode("Only include text explicitly mentioned in panel specifications")>> >>)>>,
           <<"art_style_and_coloring", ArtStyleRequirements>> >>)

(***************************************************************************)
(* Outcome of a call: a returned value or a raised exception.              *)
(***************************************************************************)
NoPrompt == <<>>

Return(text) == [kind |-> "return", exc |-> "", message |-> "", prompt |-> text]

Raise(type, msg) == [kind |-> "raise", exc |-> type, message |-> msg, prompt |-> NoPrompt]

NotCalled == [kind |-> "none", exc |-> "", message |-> "", prompt |-> NoPrompt]

(***************************************************************************)
(* build_manga_prompt, section by section.                                 *)
(***************************************************************************)
\* the message of the scene-count ValueError
SceneCountMessage(n) ==
    "Expected exactly " \o ToString(ExpectedScenes) \o " scenes, got " \o ToString(n)

\* the document the function starts from
InitialPromptData ==
    << <<"task", StrNode("4-panel manga generation")>>,
       <<"output_format", StrNode("single image containing all 4 panels")>> >>

\* "Priority and layout compliance"
AddLayoutPriority(prompt_data, has_layout_ref) ==
    IF has_layout_ref
    THEN DictSet(DictSet(prompt_data, "CRITICAL_PRIORITY", CriticalPriority),
                 "instruction", StrNode(StrictLayoutInstruction))
    ELSE DictSet(prompt_data, "instruction", StrNode(FreeLayoutInstruction))

\* char_data of the idx-th character (idx counts from 1)
CharData(idx, char) ==
    LET base == << <<"id", IntNode(idx)>>,
                   <<"name", StrNode(char.name)>>,
                   <<"reference_image_provided", BoolNode(TRUE)>> >>
    IN  MapNode(IF Truthy(char.description)
                THEN DictSet(base, "description", StrNode(char.description))
                ELSE base)

\* as AddCharacterReferences, appending only the characters that have a description
AddCharacterReferences_DescribedOnly(prompt_data, characters) ==
    IF characters # <<>>
    THEN LET described == SelectSeq(Indices0(characters),
                                    LAMBDA i : Truthy(characters[i].description))
         IN  DictSet(prompt_data, "character_references",
                     MapNode(<< <<"count", IntNode(Len(characters))>>,
                                <<"characters",
                                  ListNode([k \in DOMAIN described |->
                                                CharData(described[k],
                                                         characters[described[k]])])>> >>))
    ELSE prompt_data

\* "Character references"
AddCharacterReferences(prompt_data, characters) ==
    IF characters # <<>>
    THEN DictSet(prompt_data, "character_references",
                 MapNode(<< <<"count", IntNode(Len(characters))>>,
                            <<"characters",
                              ListNode([i \in DOMAIN characters |->
                                            CharData(i, characters[i])])>> >>))
    ELSE prompt_data

\* as AddLayoutReference, keyed on the characters instead of the flag
AddLayoutReference_WhenCharacters(prompt_data, has_layout_ref) ==
    IF DictHas(prompt_data, "character_references")
    THEN DictSet(prompt_data, "layout_reference", LayoutReference)
    ELSE prompt_data

\* "Layout reference details"
AddLayoutReference(prompt_data, has_layout_ref) ==
    IF has_layout_ref
    THEN DictSet(prompt_data, "layout_reference", LayoutReference)
    ELSE prompt_data

\* as CharName, without the lower bound: a negative index counts from the end
CharName_NoLowerBound(char_idx, characters) ==
    IF char_idx < Len(characters) /\ 0 - char_idx <= Len(characters)
    THEN characters[IF char_idx >= 0 THEN char_idx + 1
                    ELSE Len(characters) + char_idx + 1].name
    ELSE "Character_" \o ToString(char_idx + 1)

\* the name a parsed character index stands for
CharName(char_idx, characters) ==
    IF 0 <= char_idx /\ char_idx < Len(characters)
    THEN characters[char_idx + 1].name
    ELSE "Character_" \o ToString(char_idx + 1)

RECURSIVE PanelCharacters(_, _)
\* panel_data["characters"] after the loop over character_states.items(),
\* for a mapping all of whose keys int() accepts
PanelCharacters(items, characters) ==
    IF items = <<>> THEN <<>>
    ELSE LET last == items[Len(items)]
         IN  DictSet(PanelCharacters(SubSeq(items, 1, Len(items) - 1), characters),
                     CharName(py_int(last[1]).value, characters),
                     StrNode(last[2]))

\* as PanelData, with the background test nested under the character_states test
PanelData_BackgroundUnderStates(idx, scene, characters) ==
    LET base == << <<"panel_number", IntNode(idx)>>,
                   <<"scene_description", StrNode(scene.scene_description)>> >>
        withChars ==
            DictSet(base, "characters",
                    MapNode(PanelCharacters(scene.character_states, characters)))
    IN  MapNode(IF scene.character_states # <<>>
                THEN IF scene.objects_background # ""
                     THEN DictSet(withChars, "background_and_objects",
                                  StrNode(scene.objects_background))
                     ELSE withChars
                ELSE base)

\* panel_data of the idx-th scene (idx counts from 1)
PanelData(idx, scene, characters) ==
    LET base == << <<"panel_number", IntNode(idx)>>,
                   <<"scene_description", StrNode(scene.scene_description)>> >>
        withChars ==
            IF scene.character_states # <<>>
            THEN DictSet(base, "characters",
                         MapNode(PanelCharacters(scene.character_states, characters)))
            ELSE base
    IN  MapNode(IF scene.objects_background # ""
                THEN DictSet(withChars, "background_and_objects",
                             StrNode(scene.objects_background))
                ELSE withChars)

\* as AddPanels, numbering the panels from 0
AddPanels_ZeroBased(prompt_data, scenes, characters) ==
    DictSet(prompt_data, "panels",
            ListNode([i \in DOMAIN scenes |-> PanelData(i - 1, scenes[i], characters)]))

\* "Panel specifications"
AddPanels(prompt_data, scenes, characters) ==
    DictSet(prompt_data, "panels",
            ListNode([i \in DOMAIN scenes |-> PanelData(i, scenes[i], characters)]))

\* as OutputRequirements, filling the ranked list whatever the flag
OutputRequirements_AlwaysRanked(has_layout_ref) ==
    LET requirements == << <<"priority_order", ListNode(PriorityOrder)>> >>
    IN  MapNode(IF has_layout_ref
                THEN requirements
                ELSE DictSet(requirements, "no_layout_reference", NoLayoutReference))

\* "Output requirements"
OutputRequirements(has_layout_ref) ==
    LET requirements == << <<"priority_order", ListNode(<<>>)>> >>
    IN  MapNode(IF has_layout_ref
                THEN DictSet(requirements, "priority_order", ListNode(PriorityOrder))
                ELSE DictSet(requirements, "no_layout_reference", NoLayoutReference))

\* prompt_data as handed to yaml.dump
PromptData(characters, scenes, has_layout_ref) ==
    DictSet(
        AddPanels(
            AddLayoutReference(
                AddCharacterReferences(
                    AddLayoutPriority(InitialPromptData, has_layout_ref),
                    characters),
                has_layout_ref),
            scenes, characters),
        "output_requirements", OutputRequirements(has_layout_ref))

\* the character_states keys in the order the panel loop reaches them
RECURSIVE KeysInOrder(_)
KeysInOrder(scenes) ==
    IF scenes = <<>> THEN <<>>
    ELSE DictKeys(Head(scenes).character_states) \o KeysInOrder(Tail(scenes))

\* the message of the ValueError int() raises for a key
IntErrorMessage(key) ==
    "invalid literal for int() with base 10: '" \o Join(key) \o "'"

(***************************************************************************)
(* yaml.dump(prompt_data, allow_unicode=True, default_flow_style=False,    *)
(* sort_keys=False): the block-style text, one element per line of the     *)
(* mapping entries and sequence items, in document order.                  *)
(*   col   the column of the key (or of the item's scalar)                 *)
(*   dash  TRUE when "- " precedes it: the line opens a sequence item      *)
(*   kind  "entry"  key: scalar                                            *)
(*         "open"   key:           (a nested block follows)                *)
(*         "item"   - scalar                                               *)
(* A sequence that is a mapping value is written at the mapping's own      *)
(* column.  The folding of a long scalar over several physical lines and   *)
(* the quoting of scalars are presentation of one scalar and stay inside   *)
(* val.                                                                    *)
(***************************************************************************)
YamlLine(col, dash, kind, key, val) ==
    [col |-> col, dash |-> dash, kind |-> kind, key |-> key, val |-> val]

\* the text of a scalar node
ScalarText(n) ==
    CASE n.t = "str"  -> IF n.v = "" THEN "''" ELSE n.v
      [] n.t = "int"  -> ToString(n.v)
      [] n.t = "bool" -> IF n.v THEN "true" ELSE "false"

\* the text of a node written in flow style: only empty collections are
FlowText(n) ==
    CASE n.t = "map"  -> "{}"
      [] n.t = "list" -> "[]"
      [] OTHER        -> ScalarText(n)

IsInline(n) == IsScalar(n) \/ n.v = <<>>

RECURSIVE DumpMapping(_, _, _)
RECURSIVE DumpSequence(_, _)

\* the entries of a block mapping whose keys stand at column col
DumpMapping(entries, col, dash) ==
    IF entries = <<>> THEN <<>>
    ELSE LET k == Head(entries)[1]
             n == Head(entries)[2]
             first ==
                 IF IsInline(n)
                 THEN << YamlLine(col, dash, "entry", k, FlowText(n)) >>
                 ELSE << YamlLine(col, dash, "open", k, "") >>
                      \o (IF n.t = "map"
                          THEN DumpMapping(n.v, col + 2, FALSE)
                          ELSE DumpSequence(n.v, col))
         IN  first \o DumpMapping(Tail(entries), col, FALSE)

\* the items of a block sequence whose dashes stand at column dashCol
DumpSequence(items, dashCol) ==
    IF items = <<>> THEN <<>>
    ELSE LET n == Head(items)
             first ==
                 IF IsInline(n)
                 THEN << YamlLine(dashCol + 2, TRUE, "item", "", FlowText(n)) >>
                 ELSE IF n.t = "map"
                      THEN DumpMapping(n.v, dashCol + 2, TRUE)
                      ELSE << YamlLine(dashCol + 2, TRUE, "open", "", "") >>
                           \o DumpSequence(n.v, dashCol + 2)
         IN  first \o DumpSequence(Tail(items), dashCol)

yaml_dump(prompt_data) == DumpMapping(prompt_data, 0, FALSE)

(***************************************************************************)
(* build_manga_prompt(characters, scenes, has_layout_ref)                  *)
(***************************************************************************)
\* the first key, in loop order, that int() rejects (a sequence of 0 or 1 keys)
FirstRejectedKey(scenes) ==
    LET keys == KeysInOrder(scenes)
        bad  == { i \in DOMAIN keys : ~py_int(keys[i]).ok }
    IN  IF bad = {} THEN <<>>
        ELSE << keys[CHOOSE i \in bad : \A j \in bad : i <= j] >>

\* as build_manga_prompt, with a scene-count check that lets longer lists through
build_manga_prompt_AtLeastFour(characters, scenes, has_layout_ref) ==
    IF Len(scenes) < ExpectedScenes
    THEN Raise("ValueError", SceneCountMessage(Len(scenes)))
    ELSE IF FirstRejectedKey(scenes) # <<>>
         THEN Raise("ValueError", IntErrorMessage(FirstRejectedKey(scenes)[1]))
         ELSE Return(yaml_dump(PromptData(characters, scenes, has_layout_ref)))

build_manga_prompt(characters, scenes, has_layout_ref) ==
    IF Len(scenes) # ExpectedScenes
    THEN Raise("ValueError", SceneCountMessage(Len(scenes)))
    ELSE IF FirstRejectedKey(scenes) # <<>>
         THEN Raise("ValueError", IntErrorMessage(FirstRejectedKey(scenes)[1]))
         ELSE Return(yaml_dump(PromptData(characters, scenes, has_layout_ref)))

(***************************************************************************)
(* The inputs the model draws from.  Every value satisfies the field       *)
(* constraints of CharacterInput and SceneInput (non-empty name, ref_image *)
(* and scene_description; character_states any dict[str, str]).            *)
(***************************************************************************)
CharacterInput(name, ref_image, description) ==
    [name |-> name, ref_image |-> ref_image, description |-> description]

SceneInput(scene_description, character_states, objects_background) ==
    [scene_description  |-> scene_description,
     character_states   |-> character_states,
     objects_background |-> objects_background]

Alice == CharacterInput("Alice", "alice.png", "A cheerful girl")

Bob == CharacterInput("Bob", "bob.png", NoneValue)

Extra == CharacterInput("Character_2", "extra.png", "")

CharacterInputs == { Alice, Bob, Extra }

SunnyDay == SceneInput("A sunny day in the park", <<>>, "Trees and benches")

PlainScene == SceneInput("Scene 1", <<>>, "")

MeetingAtSchool ==
    SceneInput("Meeting at school",
               << << <<"0">>, "smiling" >>, << <<"1">>, "looking serious" >> >>,
               "School hallway")

WorkingTogether ==
    SceneInput("Working together",
               << << <<"0", "0">>, "focused" >>,
                  << <<"0">>, "helping" >>,
                  << <<"-", "1">>, "proud" >> >>,
               "")

\* its second key is not an integer
Success ==
    SceneInput("Success!",
               << << <<"1">>, "happy" >>, << <<"a">>, "lost" >> >>,
               "")

SceneInputs == { SunnyDay, PlainScene, MeetingAtSchool, WorkingTogether, Success }

CharacterLists == SeqsUpTo(CharacterInputs, MaxChars)

SceneLists == SeqsUpTo(SceneInputs, MaxScenes)

(***************************************************************************)
(* models.ImageGenerationRequest: construction from a request body.        *)
(* A body is [aspect_ratio, layout_ref_image, characters, scenes], with    *)
(* NoneValue for a field the body leaves out.  Pydantic checks the         *)
(* constraints of Field(...) first and runs the field_validator only on a  *)
(* value that passed them.                                                 *)
(***************************************************************************)
FixedAspectRatio == "3:4"

RequestBody(aspect_ratio, layout_ref_image, chars, scns) ==
    [aspect_ratio     |-> aspect_ratio,
     layout_ref_image |-> layout_ref_image,
     characters       |-> chars,
     scenes           |-> scns]

NoRequest == RequestBody(NoneValue, NoneValue, <<>>, <<>>)

\* aspect_ratio: Literal["3:4"] = "3:4"
AspectRatioErrors(body) ==
    IF body.aspect_ratio \in {NoneValue, FixedAspectRatio} THEN <<>>
    ELSE << [loc |-> "aspect_ratio", type |-> "literal_error",
             msg |-> "Input should be '" \o FixedAspectRatio \o "'"] >>

\* as ScenesLengthErrors, with the upper limit left out
ScenesLengthErrors_MinOnly(scns) ==
    IF Len(scns) < ExpectedScenes
    THEN << [loc |-> "scenes", type |-> "too_short",
             msg |-> "List should have at least " \o ToString(ExpectedScenes)
                     \o " items after validation, not " \o ToString(Len(scns))] >>
    ELSE <<>>

\* scenes: Field(..., min_items=4, max_items=4)
ScenesLengthErrors(scns) ==
    IF Len(scns) < ExpectedScenes
    THEN << [loc |-> "scenes", type |-> "too_short",
             msg |-> "List should have at least " \o ToString(ExpectedScenes)
                     \o " items after validation, not " \o ToString(Len(scns))] >>
    ELSE IF Len(scns) > ExpectedScenes
    THEN << [loc |-> "scenes", type |-> "too_long",
             msg |-> "List should have at most " \o ToString(ExpectedScenes)
                     \o " items after validation, not " \o ToString(Len(scns))] >>
    ELSE <<>>

\* validate_scenes_count(cls, v)
validate_scenes_count(v) ==
    IF Len(v) # ExpectedScenes
    THEN << [loc |-> "scenes", type |-> "value_error",
             msg |-> "Value error, Exactly 4 scenes must be provided"] >>
    ELSE <<>>

\* the errors of the scenes field: its validator runs after its constraints
ScenesErrors(scns) ==
    IF ScenesLengthErrors(scns) # <<>> THEN ScenesLengthErrors(scns)
    ELSE validate_scenes_count(scns)

\* ImageGenerationRequest(**body): the request, or the ValidationError
ImageGenerationRequest(body) ==
    LET errors == AspectRatioErrors(body) \o ScenesErrors(body.scenes)
    IN  IF errors # <<>>
        THEN [kind |-> "invalid", errors |-> errors, value |-> NoRequest]
        ELSE [kind |-> "valid", errors |-> <<>>,
              value |-> [body EXCEPT !.aspect_ratio = FixedAspectRatio]]

NotConstructed == [kind |-> "none", errors |-> <<>>, value |-> NoRequest]

(***************************************************************************)
(* The environment of one request: the configured API key, the files the   *)
(* request names, and what the generation client does when called.         *)
(***************************************************************************)
\* the value of a GEMINI_API_KEY that is not set
NotConfigured == << NoneValue >>

\* GEMINI_API_KEY: not set, empty, blank, set
ApiKeys == { NotConfigured, <<>>, <<" ", " ">>, <<"k", "e", "y">> }

\* a file that is "vanishing" exists when the handler looks and is gone
\* when load_image_bytes looks
FileStates == {"missing", "file", "directory", "unreadable", "vanishing"}

LayoutPath(id) == "static/layout_refs/" \o id

CharPath(id) == "static/char_refs/" \o id

\* the paths generate_image may look at for a request
ReferencedPaths(request) ==
    (IF Truthy(request.layout_ref_image)
     THEN {LayoutPath(request.layout_ref_image)} ELSE {})
    \cup { CharPath(request.characters[i].ref_image) : i \in DOMAIN request.characters }

\* GeminiImageGenerator.generate_manga: (thought_process, image_url) or an exception
ClientOutcomes ==
    { [kind |-> "return", exc |-> "", message |-> "",
       thought_process |-> "thinking", image_url |-> "/static/generated/manga.png"],
      [kind |-> "raise", exc |-> "ValueError", message |-> "invalid argument",
       thought_process |-> "", image_url |-> ""],
      [kind |-> "raise", exc |-> "FileNotFoundError", message |-> "missing resource",
       thought_process |-> "", image_url |-> ""],
      [kind |-> "raise", exc |-> "Exception", message |-> "generation failed",
       thought_process |-> "", image_url |-> ""] }

Environments(request) ==
    [api_key : ApiKeys,
     fs      : [ReferencedPaths(request) -> FileStates],
     client  : ClientOutcomes]

NoEnvironment ==
    [api_key |-> NotConfigured, fs |-> <<>>,
     client |-> CHOOSE c \in ClientOutcomes : c.kind = "return"]

(***************************************************************************)
(* utils and config, as generate_image uses them.                          *)
(***************************************************************************)
\* the subclass relation among the exception classes that occur
IsInstance(exc, cls) ==
    \/ cls = "Exception"
    \/ exc = cls
    \/ exc = "ValidationError" /\ cls = "ValueError"
    \/ exc = "FileNotFoundError" /\ cls = "OSError"

\* get_settings(): Settings() fails when gemini_api_key is not configured
get_settings(env) ==
    IF env.api_key = NotConfigured
    THEN Raise("ValidationError", "1 validation error for Settings: gemini_api_key Field required")
    ELSE Return(NoPrompt)

\* validate_api_key(api_key)
validate_api_key(api_key) ==
    IF api_key = <<>> \/ Strip(api_key) = <<>>
    THEN Raise("ValueError", "GEMINI_API_KEY is not configured")
    ELSE Return(NoPrompt)

\* Path(p).exists()
PathExists(env, path) == env.fs[path] # "missing"

\* load_image_bytes(file_path)
load_image_bytes(env, file_path) ==
    CASE env.fs[file_path] \in {"missing", "vanishing"} ->
            Raise("FileNotFoundError", "Image file not found: " \o file_path)
      [] env.fs[file_path] = "directory" ->
            Raise("ValueError", "Path is not a file: " \o file_path)
      [] env.fs[file_path] = "unreadable" ->
            Raise("OSError", "Failed to read image file " \o file_path \o ": Permission denied")
      [] OTHER -> Return(NoPrompt)

(***************************************************************************)
(* main.generate_image(request)                                            *)
(***************************************************************************)
ImageGenerationResponse(success, thought_process, image_url, error) ==
    [success |-> success, thought_process |-> thought_process,
     image_url |-> image_url, error |-> error]

NoResponse == ImageGenerationResponse(FALSE, "", NoneValue, NoneValue)

NoCall == [made |-> FALSE, prompt |-> NoPrompt, aspect_ratio |-> "", image_parts |-> <<>>]

\* as HasLayoutRef, testing for None only: an empty identifier counts as given
HasLayoutRef_NotNone(request) == request.layout_ref_image # NoneValue

\* has_layout_ref=bool(request.layout_ref_image)
HasLayoutRef(request) == Truthy(request.layout_ref_image)

\* the paths of the reference images the request names, layout first
NamedImagePaths(request) ==
    (IF Truthy(request.layout_ref_image)
     THEN << LayoutPath(request.layout_ref_image) >> ELSE <<>>)
    \o [i \in DOMAIN SelectSeq(request.characters, LAMBDA c : Truthy(c.ref_image)) |->
            CharPath(SelectSeq(request.characters, LAMBDA c : Truthy(c.ref_image))[i].ref_image)]

\* the paths handed to load_image_bytes: those that exist, in order
LoadedPaths(request, env) ==
    SelectSeq(NamedImagePaths(request), LAMBDA p : PathExists(env, p))

\* the first load that raises (a sequence of 0 or 1 outcomes)
FirstLoadFailure(request, env) ==
    LET paths == LoadedPaths(request, env)
        bad   == { i \in DOMAIN paths : load_image_bytes(env, paths[i]).kind = "raise" }
    IN  IF bad = {} THEN <<>>
        ELSE << load_image_bytes(env, paths[CHOOSE i \in bad : \A j \in bad : i <= j]) >>

\* the body of the try block: what it raises, or the client's return value,
\* together with the call made on the generation client
TryBody(request, env) ==
    LET settings == get_settings(env)
        key      == validate_api_key(env.api_key)
        prompt   == build_manga_prompt(request.characters, request.scenes,
                                       HasLayoutRef(request))
        failure  == FirstLoadFailure(request, env)
        call     == [made |-> TRUE, prompt |-> prompt.prompt,
                     aspect_ratio |-> request.aspect_ratio,
                     image_parts |-> LoadedPaths(request, env)]
    IN  IF settings.kind = "raise" THEN [outcome |-> settings, call |-> NoCall]
        ELSE IF key.kind = "raise" THEN [outcome |-> key, call |-> NoCall]
        ELSE IF prompt.kind = "raise" THEN [outcome |-> prompt, call |-> NoCall]
        ELSE IF failure # <<>> THEN [outcome |-> failure[1], call |-> NoCall]
        ELSE [outcome |-> [kind |-> env.client.kind, exc |-> env.client.exc,
                           message |-> env.client.message, prompt |-> NoPrompt],
              call |-> call]

\* as generate_image, without the last except clause
generate_image_NoCatchAll(request, env) ==
    LET body == TryBody(request, env)
        e    == body.outcome
    IN  IF e.kind = "return"
        THEN [kind |-> "return", exc |-> "", call |-> body.call,
              response |-> ImageGenerationResponse(TRUE, env.client.thought_process,
                                                   env.client.image_url, NoneValue)]
        ELSE IF IsInstance(e.exc, "ValueError")
        THEN [kind |-> "return", exc |-> "", call |-> body.call,
              response |-> ImageGenerationResponse(FALSE, "", NoneValue, e.message)]
        ELSE IF IsInstance(e.exc, "FileNotFoundError")
        THEN [kind |-> "return", exc |-> "", call |-> body.call,
              response |-> ImageGenerationResponse(
                               FALSE, "", NoneValue,
                               "Reference image not found: " \o e.message)]
        ELSE [kind |-> "raise", exc |-> e.exc, call |-> body.call,
              response |-> NoResponse]

\* the except clauses, in order; what no clause catches leaves the handler
generate_image(request, env) ==
    LET body == TryBody(request, env)
        e    == body.outcome
    IN  IF e.kind = "return"
        THEN [kind |-> "return", exc |-> "", call |-> body.call,
              response |-> ImageGenerationResponse(TRUE, env.client.thought_process,
                                                   env.client.image_url, NoneValue)]
        ELSE IF IsInstance(e.exc, "ValueError")
        THEN [kind |-> "return", exc |-> "", call |-> body.call,
              response |-> ImageGenerationResponse(FALSE, "", NoneValue, e.message)]
        ELSE IF IsInstance(e.exc, "FileNotFoundError")
        THEN [kind |-> "return", exc |-> "", call |-> body.call,
              response |-> ImageGenerationResponse(
                               FALSE, "", NoneValue,
                               "Reference image not found: " \o e.message)]
        ELSE IF IsInstance(e.exc, "Exception")
        THEN [kind |-> "return", exc |-> "", call |-> body.call,
              response |-> ImageGenerationResponse(
                               FALSE, "", NoneValue,
                               "Image generation failed: " \o e.message)]
        ELSE [kind |-> "raise", exc |-> e.exc, call |-> body.call,
              response |-> NoResponse]

NotHandled == [kind |-> "none", exc |-> "", call |-> NoCall, response |-> NoResponse]

\* the request bodies sent to POST /api/generate
RequestBodies ==
    [aspect_ratio     : {NoneValue, "16:9"},
     layout_ref_image : {NoneValue, "", "grid.png"},
     characters       : SeqsUpTo({Alice, Bob}, MaxChars),
     scenes           : SeqsUpTo({MeetingAtSchool, Success}, MaxScenes)]

(***************************************************************************)
(* State.                                                                  *)
(*   characters, scenes, has_layout_ref   the arguments of a direct call   *)
(*                                        of build_manga_prompt            *)
(*   result     what that call returned or raised                          *)
(*   pc         where a POST /api/generate request stands                  *)
(*   body       the request body received                                  *)
(*   request    the outcome of constructing ImageGenerationRequest         *)
(*   env        the environment generate_image ran in                      *)
(*   handled    what generate_image returned or raised, and the call it    *)
(*              made on the generation client                              *)
(***************************************************************************)
VARIABLES characters, scenes, has_layout_ref, result,
          pc, body, request, env, handled

compilerVars == <<characters, scenes, has_layout_ref, result>>

serviceVars == <<pc, body, request, env, handled>>

vars == <<characters, scenes, has_layout_ref, result, pc, body, request, env, handled>>

\* no direct call of the compiler is under way
CompilerIdle ==
    /\ characters = <<>>
    /\ scenes = <<>>
    /\ has_layout_ref = FALSE
    /\ result = NotCalled

\* no request is under way
ServiceIdle ==
    /\ pc = "idle"
    /\ body = NoRequest
    /\ request = NotConstructed
    /\ env = NoEnvironment
    /\ handled = NotHandled

(***************************************************************************)
(* Spec: build_manga_prompt applied to the arguments Init draws.           *)
(***************************************************************************)
Init ==
    /\ characters \in CharacterLists
    /\ scenes \in SceneLists
    /\ has_layout_ref \in BOOLEAN
    /\ result = NotCalled
    /\ ServiceIdle

\* a caller applies the prompt compiler
CallBuildMangaPrompt ==
    /\ result.kind = "none"
    /\ result' = build_manga_prompt(characters, scenes, has_layout_ref)
    /\ UNCHANGED <<characters, scenes, has_layout_ref>>
    /\ UNCHANGED serviceVars

Next == CallBuildMangaPrompt

Spec == Init /\ [][Next]_vars

(***************************************************************************)
(* SpecService: one POST /api/generate request, from its body to the       *)
(* response.                                                               *)
(***************************************************************************)
InitService ==
    /\ CompilerIdle
    /\ pc = "received"
    /\ body \in RequestBodies
    /\ request = NotConstructed
    /\ env = NoEnvironment
    /\ handled = NotHandled

\* the framework builds the request model from the body: a body that fails
\* validation is answered by the framework and never reaches the handler
ConstructRequest ==
    /\ pc = "received"
    /\ request' = ImageGenerationRequest(body)
    /\ pc' = IF request'.kind = "valid" THEN "accepted" ELSE "rejected"
    /\ UNCHANGED <<body, env, handled>>
    /\ UNCHANGED compilerVars

\* the handler runs on the request, in some environment
GenerateImage ==
    /\ pc = "accepted"
    /\ \E e \in Environments(request.value) :
          /\ env' = e
          /\ handled' = generate_image(request.value, e)
    /\ pc' = "responded"
    /\ UNCHANGED <<body, request>>
    /\ UNCHANGED compilerVars

NextService == ConstructRequest \/ GenerateImage

SpecService == InitService /\ [][NextService]_vars

(***************************************************************************)
(* Reading a prompt text back: sections, sequence items, nested blocks.    *)
(***************************************************************************)
Indices(text) == Indices0(text)

\* the text has a top-level section of this name
HasSection(text, key) ==
    \E i \in DOMAIN text : text[i].col = 0 /\ ~text[i].dash /\ text[i].key = key

\* the names of the top-level sections, in order
SectionNames(text) ==
    LET tops == SelectSeq(Indices(text), LAMBDA i : text[i].col = 0 /\ ~text[i].dash)
    IN  [k \in DOMAIN tops |-> text[tops[k]].key]

\* the lines nested under line i: the run of deeper lines that follows it
Nested(text, i) ==
    LET stops == { j \in (i + 1)..Len(text) : text[j].col <= text[i].col }
        end   == IF stops = {} THEN Len(text) + 1
                 ELSE CHOOSE j \in stops : \A h \in stops : j <= h
    IN  SubSeq(text, i + 1, end - 1)

\* the lines nested under the first line with this key at this column
Block(text, key, col) ==
    LET hits == { i \in DOMAIN text : text[i].col = col /\ text[i].key = key }
    IN  IF hits = {} THEN <<>>
        ELSE Nested(text, CHOOSE i \in hits : \A h \in hits : i <= h)

\* the sequence items whose content stands at column col, each as its lines
Items(text, col) ==
    LET starts == SelectSeq(Indices(text), LAMBDA i : text[i].dash /\ text[i].col = col)
    IN  [k \in DOMAIN starts |->
            SubSeq(text, starts[k],
                   IF k < Len(starts) THEN starts[k + 1] - 1 ELSE Len(text))]

\* the value written for a key at a column ("" when the key is not there)
ValueOf(text, key, col) ==
    LET hits == { i \in DOMAIN text :
                     text[i].col = col /\ text[i].key = key /\ text[i].kind = "entry" }
    IN  IF hits = {} THEN ""
        ELSE text[CHOOSE i \in hits : \A h \in hits : i <= h].val

\* the panels of a prompt, each as its lines
Panels(text) == Items(Block(text, "panels", 0), 2)

\* the character sub-map of a panel, as <<name, state>> pairs in order
PanelCharacterMap(panel) ==
    LET sub == Block(panel, "characters", 2)
    IN  [i \in DOMAIN sub |-> <<sub[i].key, sub[i].val>>]

Called == result.kind # "none"

Returned == result.kind = "return"

(***************************************************************************)
(* Properties of build_manga_prompt (checked under Spec).                  *)
(***************************************************************************)

\* C1: a call with a scenes list whose length is not 4 raises ValueError with
\* the message "Expected exactly 4 scenes, got <length>", whatever the
\* characters and the flag; a prompt is returned only for exactly 4 scenes.
C1_SceneCountChecked ==
    Called =>
        /\ Len(scenes) # 4 =>
              /\ result.kind = "raise"
              /\ result.exc = "ValueError"
              /\ result.message
                    = "Expected exactly 4 scenes, got " \o ToString(Len(scenes))
        /\ Returned => Len(scenes) = 4

C1_Witness ==
    /\ result.kind = "raise"
    /\ Len(scenes) = 5
    /\ characters # <<>>
    /\ has_layout_ref
    /\ result.message = "Expected exactly 4 scenes, got 5"

\* C2: a returned prompt has the CRITICAL_PRIORITY section and the
\* layout_reference section exactly when has_layout_ref is true, and states
\* the free-choice-of-panel-layout instruction exactly when it is false.
C2_LayoutSectionsFollowFlag ==
    Returned =>
        LET text == result.prompt
            free == \E i \in DOMAIN text :
                        text[i].val = "Generate 4-panel manga based on specifications below with free choice of panel layout"
        IN  /\ HasSection(text, "CRITICAL_PRIORITY") <=> has_layout_ref
            /\ HasSection(text, "layout_reference") <=> has_layout_ref
            /\ free <=> ~has_layout_ref

C2_Witness ==
    /\ Returned
    /\ has_layout_ref
    /\ characters = <<>>
    /\ HasSection(result.prompt, "CRITICAL_PRIORITY")
    /\ Block(result.prompt, "layout_reference", 0) # <<>>

\* C3: a returned prompt has a character_references section exactly when
\* characters is non-empty; its count is len(characters) and its list has
\* one entry per character, in input order, with ids 1, 2, ...
C3_CharacterReferences ==
    Returned =>
        LET text    == result.prompt
            section == Block(text, "character_references", 0)
            entries == Items(Block(section, "characters", 2), 4)
        IN  /\ HasSection(text, "character_references") <=> characters # <<>>
            /\ characters # <<>> =>
                  /\ ValueOf(section, "count", 2) = ToString(Len(characters))
                  /\ Len(entries) = Len(characters)
                  /\ \A k \in DOMAIN entries :
                        /\ ValueOf(entries[k], "id", 4) = ToString(k)
                        /\ ValueOf(entries[k], "name", 4) = characters[k].name

C3_Witness ==
    /\ Returned
    /\ Len(characters) = 2
    /\ characters[1].name # characters[2].name
    /\ ~Truthy(characters[1].description)
    /\ Len(Items(Block(Block(result.prompt, "character_references", 0),
                       "characters", 2), 4)) = 2

\* C4: in a call with 4 scenes all of whose character_states keys parse as
\* integers, no index makes the call fail, and in the panel of each scene the
\* character sub-map has, for every key with value i, the key
\* characters[i].name when 0 <= i < len(characters) and Character_{i+1}
\* otherwise.
C4_IndexResolution ==
    (Called /\ Len(scenes) = 4
        /\ \A k \in DOMAIN scenes : \A e \in Range(scenes[k].character_states) :
               py_int(e[1]).ok)
    =>  /\ Returned
        /\ \A k \in DOMAIN scenes : \A e \in Range(scenes[k].character_states) :
              LET i        == py_int(e[1]).value
                  expected == IF 0 <= i /\ i < Len(characters)
                              THEN characters[i + 1].name
                              ELSE "Character_" \o ToString(i + 1)
              IN  expected \in Range(DictKeys(PanelCharacterMap(Panels(result.prompt)[k])))

C4_Witness ==
    /\ Returned
    /\ characters = <<>>
    /\ scenes[1] = MeetingAtSchool
    /\ scenes[2] = WorkingTogether
    /\ PanelCharacterMap(Panels(result.prompt)[1])
          = << <<"Character_1", "smiling">>, <<"Character_2", "looking serious">> >>
    /\ "Character_0" \in Range(DictKeys(PanelCharacterMap(Panels(result.prompt)[2])))

\* C5: the panels block of a returned prompt has exactly 4 entries, and the
\* k-th has panel number k and the scene description of the k-th scene,
\* whatever the characters, character states and backgrounds.
C5_PanelsInOrder ==
    Returned =>
        LET panels == Panels(result.prompt)
        IN  /\ Len(panels) = 4
            /\ \A k \in 1..4 :
                  /\ panels[k][1].key = "panel_number"
                  /\ panels[k][1].val = ToString(k)
                  /\ ValueOf(panels[k], "scene_description", 2)
                        = scenes[k].scene_description

C5_Witness ==
    /\ Returned
    /\ characters # <<>>
    /\ scenes = <<SunnyDay, MeetingAtSchool, WorkingTogether, PlainScene>>
    /\ Len(Panels(result.prompt)) = 4
    /\ ValueOf(Panels(result.prompt)[3], "scene_description", 2) = "Working together"

\* C6: a call with exactly 4 scenes never raises, whatever the characters
\* and whatever the keys of the scenes' character_states.
C6_OnlyTheCountFails ==
    (Called /\ Len(scenes) = 4) => Returned

\* C9: in a returned prompt the priority_order list of output_requirements
\* is non-empty exactly when has_layout_ref is true.  With the flag it has
\* five entries, priorities 1..5 in order, named layout_compliance,
\* character_consistency, scene_content, text_and_symbols,
\* art_style_and_coloring.  Without it nothing is named layout_compliance or
\* ranked, and character_consistency, scene_content, text_rules and
\* art_style_and_coloring are the groups of no_layout_reference.
C9_OutputRequirements ==
    Returned =>
        LET text    == result.prompt
            section == Block(text, "output_requirements", 0)
            ranked  == Items(Block(section, "priority_order", 2), 4)
            group   == Block(section, "no_layout_reference", 2)
            groups  == SelectSeq(group, LAMBDA l : l.col = 4)
            names   == << "layout_compliance", "character_consistency", "scene_content",
                          "text_and_symbols", "art_style_and_coloring" >>
        IN  /\ HasSection(text, "output_requirements")
            /\ ranked # <<>> <=> has_layout_ref
            /\ has_layout_ref =>
                  /\ Len(ranked) = 5
                  /\ \A k \in 1..5 :
                        /\ ranked[k][1].key = "priority"
                        /\ ranked[k][1].val = ToString(k)
                        /\ ValueOf(ranked[k], "name", 4) = names[k]
            /\ ~has_layout_ref =>
                  /\ ValueOf(section, "priority_order", 2) = "[]"
                  /\ \A i \in DOMAIN section :
                        section[i].val # "layout_compliance" /\ section[i].key # "priority"
                  /\ [i \in DOMAIN groups |-> groups[i].key]
                        = << "character_consistency", "scene_content", "text_rules",
                             "art_style_and_coloring" >>

C9_Witness ==
    /\ Returned
    /\ has_layout_ref
    /\ Len(Items(Block(Block(result.prompt, "output_requirements", 0),
                       "priority_order", 2), 4)) = 5

(***************************************************************************)
(* Properties of the request model and of generate_image (checked under    *)
(* SpecService).                                                           *)
(***************************************************************************)

\* C8: constructing ImageGenerationRequest from a body whose scenes list has
\* a length other than 4 fails, with an error on scenes that states 4 and the
\* actual length; a constructed request has exactly 4 scenes, and so has
\* every request generate_image is given.
C8_RequestHasFourScenes ==
    /\ request.kind = "valid" => Len(request.value.scenes) = 4
    /\ pc \in {"accepted", "responded"} =>
          request.kind = "valid" /\ Len(request.value.scenes) = 4
    /\ (request.kind # "none" /\ Len(body.scenes) # 4) =>
          LET n       == ToString(Len(body.scenes))
              onScene == SelectSeq(request.errors, LAMBDA e : e.loc = "scenes")
          IN  /\ request.kind = "invalid"
              /\ onScene # <<>>
              /\ \A i \in DOMAIN onScene :
                    onScene[i].msg \in
                        { "List should have at least 4 items after validation, not " \o n,
                          "List should have at most 4 items after validation, not " \o n }

C8_Witness ==
    /\ request.kind = "invalid"
    /\ pc = "rejected"
    /\ Len(body.scenes) = 5
    /\ body.aspect_ratio = NoneValue
    /\ Len(request.errors) = 1

\* the failures the try block of generate_image can meet
KeyMissing == env.api_key = NotConfigured \/ Strip(env.api_key) = <<>>

CompilerFails ==
    build_manga_prompt(request.value.characters, request.value.scenes,
                       HasLayoutRef(request.value)).kind = "raise"

LoadFails == FirstLoadFailure(request.value, env) # <<>>

ClientFails == env.client.kind = "raise"

StrictPromptSent ==
    /\ HasSection(handled.call.prompt, "CRITICAL_PRIORITY")
    /\ HasSection(handled.call.prompt, "layout_reference")

\* the layout image is among the parts handed to the generation client
LayoutImageSent ==
    LayoutPath(body.layout_ref_image) \in Range(handled.call.image_parts)

\* C11: whenever generate_image calls the generation client, the prompt it
\* sends is the strict-layout one exactly when the request's
\* layout_ref_image is given and non-empty, whether or not the file exists:
\* for an identifier whose file is missing the strict prompt is sent and no
\* layout image is attached; the image is attached when the file is there.
C11_FlagFromIdentifier ==
    (pc = "responded" /\ handled.call.made) =>
        LET given == body.layout_ref_image \notin {NoneValue, ""}
        IN  /\ StrictPromptSent <=> given
            /\ ~given => ~LayoutImageSent
            /\ given =>
                  LET state == env.fs[LayoutPath(body.layout_ref_image)]
                  IN  /\ state = "missing" => ~LayoutImageSent
                      /\ state = "file" => LayoutImageSent

C11_Witness ==
    /\ pc = "responded"
    /\ handled.call.made
    /\ body.layout_ref_image = "grid.png"
    /\ env.fs[LayoutPath("grid.png")] = "missing"
    /\ StrictPromptSent
    /\ ~LayoutImageSent
    /\ handled.response.success

\* the lines (a panel, a section) have this key at this column
HasKey(text, key, col) ==
    \E i \in DOMAIN text : text[i].col = col /\ text[i].key = key

\* int() accepts every character_states key of the call
AllKeysParse ==
    \A k \in DOMAIN scenes : \A e \in Range(scenes[k].character_states) : py_int(e[1]).ok

\* C12: in a returned prompt each panel has a characters sub-map exactly
\* when its scene's character_states is non-empty, and a
\* background_and_objects field exactly when the scene's objects_background
\* is non-empty, holding that text.  A call with 4 scenes whose keys parse
\* returns, whether or not the characters list, a background or a
\* character_states mapping is empty.
C12_OptionalPanelFields ==
    /\ Returned =>
          \A k \in 1..4 :
              LET panel == Panels(result.prompt)[k]
                  bg    == scenes[k].objects_background
              IN  /\ HasKey(panel, "characters", 2) <=> scenes[k].character_states # <<>>
                  /\ PanelCharacterMap(panel) # <<>> <=> scenes[k].character_states # <<>>
                  /\ HasKey(panel, "background_and_objects", 2) <=> bg # ""
                  /\ bg # "" => ValueOf(panel, "background_and_objects", 2) = bg
    /\ (Called /\ Len(scenes) = 4 /\ AllKeysParse) => Returned

C12_Witness ==
    /\ Returned
    /\ characters = <<>>
    /\ scenes = <<SunnyDay, WorkingTogether, PlainScene, MeetingAtSchool>>
    /\ ~HasKey(Panels(result.prompt)[1], "characters", 2)
    /\ ValueOf(Panels(result.prompt)[1], "background_and_objects", 2) = "Trees and benches"
    /\ HasKey(Panels(result.prompt)[2], "characters", 2)
    /\ ~HasKey(Panels(result.prompt)[2], "background_and_objects", 2)

\* C13: in a returned prompt no character state is lost: each panel's
\* characters sub-map has as many entries as its scene's character_states
\* has keys, and every (key, state) pair is there under the name its key
\* resolves to, with its own state.
C13_NoStateLost ==
    Returned =>
        \A k \in 1..4 :
            LET items == scenes[k].character_states
                map   == PanelCharacterMap(Panels(result.prompt)[k])
            IN  /\ Len(map) = Len(items)
                /\ \A e \in Range(items) :
                      LET i    == py_int(e[1]).value
                          name == IF 0 <= i /\ i < Len(characters)
                                  THEN characters[i + 1].name
                                  ELSE "Character_" \o ToString(i + 1)
                      IN  <<name, e[2]>> \in Range(map)
====
